---- MODULE Spec2Model ----
(***************************************************************************)
(* Model of the kubernetes-services stage of nebari and of the Azure       *)
(* Kubernetes version lookup.                                              *)
(*                                                                         *)
(*   SpecCheck    KubernetesServicesStage.check: the health check of the   *)
(*                stage's service urls (_attempt_connect_url).             *)
(*   SpecCheckLive  SpecCheck with the fairness of sequential code.        *)
(*   SpecInput    KubernetesServicesStage.input_vars, followed by the      *)
(*                apply step of the pipeline.                              *)
(*   SpecVersions azure_cloud.kubernetes_versions behind functools         *)
(*                lru_cache.                                               *)
(*   SpecCredentials  azure_cloud.check_credentials.                       *)
(*   SpecProfiles Profiles.check_default, the validator of the jupyterlab  *)
(*                profiles.                                                *)
(***************************************************************************)
EXTENDS Integers, Sequences, FiniteSets, TLC

VARIABLES
    \* ---- health check (check, _attempt_connect_url) ----
    services,     \* stage_outputs[directory]["service_urls"]["value"], in dict order
    hcPc,         \* position of check(): "loop", "get", "sleep", "down", "returned",
                  \* "exited", "raised" ("idle" when check() is not run)
    svcIdx,       \* index of the service the for loop is at
    attempt,      \* i of `for i in range(num_attempts)`
    gets,         \* per service: number of requests.get calls issued
    waits,        \* per service: number of time.sleep(timeout) calls
    bad,          \* per service: number of responses with status >= 400
    lastStatus,   \* per service: status of the last response (0: none)
    outcome,      \* per service: "none", "success", "exhausted", "raised"
    elapsed,      \* seconds slept so far
    printed,      \* the ERROR line printed, or NoLine
    exitStatus,   \* -1 while running or returned, 1 after sys.exit(1)
    nextStage,    \* TRUE once the pipeline has gone on to the next stage
    \* ---- input_vars ----
    config,       \* self.config, the configuration object of the stage
    stage_outputs,\* the stage_outputs argument of input_vars
    config0,      \* history: the configuration before the first call
    outputs0,     \* history: stage_outputs before the first call
    ivCalls,      \* number of input_vars calls made
    ivResult,     \* what the last call returned or raised
    ivPrev,       \* what the call before it returned or raised
    applied,      \* TRUE once the apply engine has been invoked
    ivGroups,     \* history: the variable groups the last call built (<<>>: none)
    \* ---- kubernetes_versions ----
    backing,      \* the orchestrators the provider lists (the same for every location)
    client,       \* cache of initiate_container_service_client: "none" or "client"
    cache,        \* lru_cache of kubernetes_versions, least recently used first
    queryCount,   \* history: number of list_orchestrators calls issued
    queriesAt,    \* history: list_orchestrators calls per named location
    stored,       \* history: per named key, how often a result was put in the cache
    fillers,      \* number of lookups of further regions made so far
    namedCalls,   \* number of lookups made with one of the named arguments
    changes,      \* number of changes of the backing data
    last,         \* the last lookup: argument, outcome, result
    prev,         \* the lookup before it
    used,         \* history: the named arguments looked up so far
    failedQueries,\* history: number of list_orchestrators calls that raised
    \* ---- check_credentials ----
    environ,      \* the required variable names that are in os.environ
    order,        \* the order in which this process iterates the set literal
    ccCalls,      \* number of check_credentials calls made
    ccReport,     \* what the last call did: returned, or raised naming variables
    ccPrev,       \* what the call before it did
    processes,    \* number of interpreter processes started so far
    \* ---- Profiles.check_default ----
    jupyterlab,   \* the jupyterlab value given to Profiles
    pfResult      \* what validation made of it

hcVars == <<services, hcPc, svcIdx, attempt, gets, waits, bad, lastStatus,
            outcome, elapsed, printed, exitStatus, nextStage>>

ivVars == <<config, stage_outputs, config0, outputs0, ivCalls, ivResult, ivPrev,
            applied, ivGroups>>

kvVars == <<backing, client, cache, queryCount, queriesAt, stored, fillers,
            namedCalls, changes, last, prev, used, failedQueries>>

ccVars == <<environ, order, ccCalls, ccReport, ccPrev, processes>>

pfVars == <<jupyterlab, pfResult>>

vars == <<hcVars, ivVars, kvVars, ccVars, pfVars>>

----------------------------------------------------------------------------
(* Values shared by the parts of the model                                 *)

\* Python's None; str(None) is the text "None"
None == "None"

NoVars == [k \in {} |-> None]

NoResult == [kind |-> "none", error |-> "", fields |-> {}, vars |-> NoVars]

\* the input_vars part at rest (the other parts of the model leave it there)
IdleInput ==
    /\ config = [idle |-> TRUE]
    /\ stage_outputs = [idle |-> TRUE]
    /\ config0 = [idle |-> TRUE]
    /\ outputs0 = [idle |-> TRUE]
    /\ ivCalls = 0
    /\ ivResult = NoResult
    /\ ivPrev = NoResult
    /\ applied = FALSE
    /\ ivGroups = <<>>

NoCall == [key |-> [args |-> <<>>, kwds |-> <<>>], outcome |-> "none",
           result |-> <<>>, hit |-> FALSE, serial |-> 0, before |-> 0,
           backing |-> <<>>]

\* the kubernetes_versions part at rest
IdleVersions ==
    /\ backing = <<>>
    /\ client = "none"
    /\ cache = <<>>
    /\ queryCount = 0
    /\ queriesAt = <<>>
    /\ stored = <<>>
    /\ fillers = 0
    /\ namedCalls = 0
    /\ changes = 0
    /\ last = NoCall
    /\ prev = NoCall
    /\ used = {}
    /\ failedQueries = 0

NoReport == [outcome |-> "none", names |-> {}]

\* the check_credentials part at rest
IdleCredentials ==
    /\ environ = {}
    /\ order = <<>>
    /\ ccCalls = 0
    /\ ccReport = NoReport
    /\ ccPrev = NoReport
    /\ processes = 0

NoVerdict == [outcome |-> "none", value |-> <<>>]

\* the profile validation part at rest
IdleProfiles ==
    /\ jupyterlab = <<>>
    /\ pfResult = NoVerdict

----------------------------------------------------------------------------
(* Health check                                                            *)

NUM_ATTEMPTS == 10
TIMEOUT == 10

MaxServices == 3

ServiceNames == <<"jupyterhub", "keycloak", "dask_gateway", "conda_store", "monitoring">>

HealthUrl(n) == <<"https", n, "health">>

NoUrl == <<>>

NoLine == [service |-> "", url |-> NoUrl]

\* the statuses a response may carry: the two around the threshold of
\* `status_code < 400`, and a server error
StatusCodes == {399, 400, 503}

\* service_urls values: the i-th service has the i-th name and either a health
\* url or an empty one
ServiceLists ==
    UNION { { s \in [1..n -> [name : {ServiceNames[k] : k \in 1..n},
                              health_url : {NoUrl} \cup {HealthUrl(ServiceNames[k]) : k \in 1..n}]] :
                \A i \in 1..n : /\ s[i].name = ServiceNames[i]
                                /\ s[i].health_url \in {NoUrl, HealthUrl(ServiceNames[i])} }
            : n \in 0..MaxServices }

StatusOk_Le(status) == status <= 400

\* `if response.status_code < 400`
StatusOk(status) == status < 400

InRange_OneShort(i) == i < NUM_ATTEMPTS - 1

InRange_OneMore(i) == i <= NUM_ATTEMPTS

\* `for i in range(num_attempts)`: whether the loop has an iteration i
InRange(i) == i < NUM_ATTEMPTS

UrlTruthy_Inverted(url) == url = NoUrl

\* `if service_url and ...`: the truth value of the url
UrlTruthy(url) == url # NoUrl

AfterFailure_NoLastWait(i) == IF InRange(i + 1) THEN "sleep" ELSE "down"

\* where _attempt_connect_url goes after the failed attempt i: to
\* time.sleep(timeout), which comes after the if/else of every iteration
AfterFailure(i) == "sleep"

DownStep_Continue(idx) == [pc |-> "loop", exitStatus |-> -1, svcIdx |-> idx + 1]

\* what check() does once _attempt_connect_url returned False for service idx,
\* after the ERROR print: sys.exit(1)
DownStep(idx) == [pc |-> "exited", exitStatus |-> 1, svcIdx |-> idx]

\* the for loop of check(): take the next service, or return
NextService ==
    /\ hcPc = "loop"
    /\ IF svcIdx > Len(services)
       THEN /\ hcPc' = "returned"
            /\ UNCHANGED <<svcIdx, attempt>>
       ELSE IF UrlTruthy(services[svcIdx].health_url)
            THEN /\ hcPc' = IF InRange(0) THEN "get" ELSE "down"
                 /\ attempt' = 0
                 /\ UNCHANGED svcIdx
            ELSE /\ svcIdx' = svcIdx + 1
                 /\ UNCHANGED <<hcPc, attempt>>
    /\ UNCHANGED <<services, gets, waits, bad, lastStatus, outcome, elapsed,
                   printed, exitStatus, nextStage>>
    /\ UNCHANGED <<ivVars, kvVars, ccVars, pfVars>>

\* requests.get returns a response
GetResponds ==
    /\ hcPc = "get"
    /\ \E status \in StatusCodes :
          /\ gets' = [gets EXCEPT ![svcIdx] = @ + 1]
          /\ lastStatus' = [lastStatus EXCEPT ![svcIdx] = status]
          /\ IF StatusOk(status)
             THEN /\ outcome' = [outcome EXCEPT ![svcIdx] = "success"]
                  /\ svcIdx' = svcIdx + 1
                  /\ hcPc' = "loop"
                  /\ UNCHANGED bad
             ELSE /\ bad' = [bad EXCEPT ![svcIdx] = @ + 1]
                  /\ hcPc' = AfterFailure(attempt)
                  /\ UNCHANGED <<outcome, svcIdx>>
    /\ UNCHANGED <<services, attempt, waits, elapsed, printed, exitStatus, nextStage>>
    /\ UNCHANGED <<ivVars, kvVars, ccVars, pfVars>>

\* requests.get raises (connection refused, timeout, TLS error): nothing in
\* check() catches it
GetRaises ==
    /\ hcPc = "get"
    /\ gets' = [gets EXCEPT ![svcIdx] = @ + 1]
    /\ outcome' = [outcome EXCEPT ![svcIdx] = "raised"]
    /\ hcPc' = "raised"
    /\ UNCHANGED <<services, svcIdx, attempt, waits, bad, lastStatus, elapsed,
                   printed, exitStatus, nextStage>>
    /\ UNCHANGED <<ivVars, kvVars, ccVars, pfVars>>

\* time.sleep(timeout), then the next iteration or `return False`
Sleep ==
    /\ hcPc = "sleep"
    /\ waits' = [waits EXCEPT ![svcIdx] = @ + 1]
    /\ elapsed' = elapsed + TIMEOUT
    /\ attempt' = attempt + 1
    /\ IF InRange(attempt + 1)
       THEN /\ hcPc' = "get"
            /\ UNCHANGED outcome
       ELSE /\ hcPc' = "down"
            /\ outcome' = [outcome EXCEPT ![svcIdx] = "exhausted"]
    /\ UNCHANGED <<services, svcIdx, gets, bad, lastStatus, printed, exitStatus,
                   nextStage>>
    /\ UNCHANGED <<ivVars, kvVars, ccVars, pfVars>>

\* print("ERROR: Service ... DOWN ..."); sys.exit(1)
ServiceDown ==
    /\ hcPc = "down"
    /\ printed' = [service |-> services[svcIdx].name,
                   url |-> services[svcIdx].health_url]
    /\ exitStatus' = DownStep(svcIdx).exitStatus
    /\ hcPc' = DownStep(svcIdx).pc
    /\ svcIdx' = DownStep(svcIdx).svcIdx
    /\ UNCHANGED <<services, attempt, gets, waits, bad, lastStatus, outcome,
                   elapsed, nextStage>>
    /\ UNCHANGED <<ivVars, kvVars, ccVars, pfVars>>

\* the pipeline goes on to the next stage once check() has returned
ProceedToNextStage ==
    /\ hcPc = "returned"
    /\ ~nextStage
    /\ nextStage' = TRUE
    /\ UNCHANGED <<services, hcPc, svcIdx, attempt, gets, waits, bad, lastStatus,
                   outcome, elapsed, printed, exitStatus>>
    /\ UNCHANGED <<ivVars, kvVars, ccVars, pfVars>>

InitCheck ==
    /\ services \in ServiceLists
    /\ hcPc = "loop"
    /\ svcIdx = 1
    /\ attempt = 0
    /\ gets = [i \in 1..Len(services) |-> 0]
    /\ waits = [i \in 1..Len(services) |-> 0]
    /\ bad = [i \in 1..Len(services) |-> 0]
    /\ lastStatus = [i \in 1..Len(services) |-> 0]
    /\ outcome = [i \in 1..Len(services) |-> "none"]
    /\ elapsed = 0
    /\ printed = NoLine
    /\ exitStatus = -1
    /\ nextStage = FALSE
    /\ IdleInput
    /\ IdleVersions
    /\ IdleCredentials
    /\ IdleProfiles

NextCheck ==
    \/ NextService
    \/ GetResponds
    \/ GetRaises
    \/ Sleep
    \/ ServiceDown
    \/ ProceedToNextStage

SpecCheck == InitCheck /\ [][NextCheck]_vars

\* check() is straight-line code in one thread: requests.get answers or raises
\* within its timeout and time.sleep returns, so a step that can be taken is
\* taken
SpecCheckLive == SpecCheck /\ WF_vars(NextCheck)

----------------------------------------------------------------------------
(* Claims about the health check (SpecCheck)                               *)

Targets == 1..Len(services)

RECURSIVE SumTo(_, _)
SumTo(f, n) == IF n = 0 THEN 0 ELSE f[n] + SumTo(f, n - 1)

\* C1: a target whose first k-1 responses have status >= 400 and whose k-th
\* has a status below 400 (1 <= k <= N) is reported as a success after exactly
\* k GETs and k-1 waits of T seconds each, and gets no request after the
\* successful one; conversely a target counts as a success only then.
C1_SuccessOnKth ==
    /\ \A s \in Targets :
          /\ (lastStatus[s] # 0 /\ lastStatus[s] < 400) <=> outcome[s] = "success"
          /\ outcome[s] = "success" =>
                /\ gets[s] \in 1..NUM_ATTEMPTS
                /\ bad[s] = gets[s] - 1
                /\ waits[s] = gets[s] - 1
                /\ svcIdx > s
    /\ elapsed = TIMEOUT * SumTo(waits, Len(services))

\* a target that failed three times and succeeded on the fourth attempt
C1_Witness ==
    \E s \in Targets :
        /\ outcome[s] = "success"
        /\ gets[s] = 4 /\ bad[s] = 3 /\ waits[s] = 3
        /\ lastStatus[s] = 399
        /\ elapsed = 3 * TIMEOUT

\* C2: a target all of whose responses have status >= 400 is attempted
\* exactly N times and then counts as failed, never as a success; no target
\* gets more than N requests.
C2_Exhaustion ==
    \A s \in Targets :
        /\ gets[s] <= NUM_ATTEMPTS
        /\ outcome[s] = "exhausted" <=>
              (bad[s] = NUM_ATTEMPTS /\ waits[s] = NUM_ATTEMPTS)
        /\ outcome[s] = "exhausted" =>
              /\ gets[s] = NUM_ATTEMPTS
              /\ svcIdx = s
              /\ hcPc \in {"down", "exited"}
        /\ (bad[s] = gets[s] /\ outcome[s] = "none" /\ gets[s] > 0) =>
              /\ gets[s] <= NUM_ATTEMPTS
              /\ svcIdx = s
              /\ hcPc \in {"get", "sleep"}

\* a target that used up its N attempts, after which the check has exited
C2_Witness ==
    \E s \in Targets :
        /\ outcome[s] = "exhausted"
        /\ gets[s] = NUM_ATTEMPTS
        /\ bad[s] = NUM_ATTEMPTS
        /\ hcPc = "exited"

\* C3: an attempt whose GET itself fails (connection refused, timeout, TLS
\* error) is followed by a wait and, while fewer than N attempts have been
\* used, by the next attempt: the check never stops on such a failure.
C3_RetriesWhateverTheCause ==
    \A s \in Targets :
        (outcome[s] = "raised" /\ gets[s] < NUM_ATTEMPTS) =>
            /\ hcPc \in {"sleep", "get"}
            /\ svcIdx = s

\* C4: once a target has exhausted its attempts the check goes no further:
\* no later target gets a request, the ERROR line names the failing service
\* and its url, the run exits with status 1 and no next stage is processed;
\* and the run exits that way only for an exhausted target.
C4_AllOrNothing ==
    /\ \A s \in Targets :
          outcome[s] = "exhausted" =>
              /\ \A j \in Targets : j > s => (gets[j] = 0 /\ outcome[j] = "none")
              /\ svcIdx = s
              /\ hcPc \in {"down", "exited"}
              /\ ~nextStage
              /\ hcPc = "exited" =>
                    /\ exitStatus = 1
                    /\ printed = [service |-> services[s].name,
                                  url |-> services[s].health_url]
    /\ (exitStatus = 1 \/ printed # NoLine) =>
          /\ hcPc = "exited"
          /\ svcIdx \in Targets
          /\ outcome[svcIdx] = "exhausted"
    /\ nextStage => \A s \in Targets : outcome[s] # "exhausted"

\* the first target is down, the check has exited, and a later target with a
\* health url never got a request
C4_Witness ==
    /\ hcPc = "exited"
    /\ exitStatus = 1
    /\ \E s \in Targets :
          /\ outcome[s] = "exhausted"
          /\ printed.service = services[s].name
          /\ \E j \in Targets : j > s /\ UrlTruthy(services[j].health_url) /\ gets[j] = 0

\* C5 as stated: the check returns normally only if every service of
\* service_urls has been attempted and has answered with a status below 400.
C5_EveryServiceAttempted ==
    hcPc = "returned" =>
        \A s \in Targets : gets[s] >= 1 /\ outcome[s] = "success"

\* C5, amended: the check returns normally only if every service with a
\* non-empty health url has been attempted and has answered with a status
\* below 400 within its N attempts; a service whose health url is empty is
\* passed over without a request.
C5_EveryUrlAttempted ==
    hcPc = "returned" =>
        \A s \in Targets :
            IF services[s].health_url # NoUrl
            THEN /\ gets[s] \in 1..NUM_ATTEMPTS
                 /\ outcome[s] = "success"
                 /\ lastStatus[s] # 0 /\ lastStatus[s] < 400
            ELSE gets[s] = 0 /\ outcome[s] = "none"

\* the check has returned after two targets answered, one of them on a retry,
\* and one service without a health url was passed over
C5_Witness ==
    /\ hcPc = "returned"
    /\ \E s, t, u \in Targets :
          /\ s # t
          /\ outcome[s] = "success" /\ gets[s] = 1
          /\ outcome[t] = "success" /\ gets[t] > 1
          /\ services[u].health_url = NoUrl /\ gets[u] = 0

\* C17: a wait of T seconds follows every failed attempt, the last one
\* included: a target that uses up its N attempts has had N waits when its
\* failure is reported, N * T seconds at least having gone by; a target
\* that succeeds has had no wait after its successful attempt.
C17_WaitAfterEveryFailure ==
    /\ \A s \in Targets :
          /\ waits[s] = IF hcPc = "sleep" /\ svcIdx = s THEN bad[s] - 1 ELSE bad[s]
          /\ outcome[s] = "success" => waits[s] = gets[s] - 1
    /\ hcPc \in {"down", "exited"} =>
          /\ waits[svcIdx] = NUM_ATTEMPTS
          /\ elapsed >= NUM_ATTEMPTS * TIMEOUT
    /\ printed # NoLine =>
          /\ waits[svcIdx] = NUM_ATTEMPTS
          /\ elapsed >= NUM_ATTEMPTS * TIMEOUT

\* the failure of the only target is reported after ten waits, 100 seconds
C17_Witness ==
    /\ hcPc = "exited"
    /\ printed # NoLine
    /\ svcIdx = 1
    /\ waits[1] = NUM_ATTEMPTS
    /\ elapsed = NUM_ATTEMPTS * TIMEOUT

\* check() is over: it returned, exited through sys.exit or raised
Finished == hcPc \in {"returned", "exited", "raised"}

\* C14: the polling loop is bounded: whatever the targets and the responses,
\* the check ends (it returns, exits or raises); no target gets more than N
\* requests, and a target that has succeeded or used up its attempts gets no
\* further request.
C14_BoundedTermination ==
    /\ <>Finished
    /\ [](\A s \in Targets : gets[s] <= NUM_ATTEMPTS)
    /\ [][\A s \in Targets :
              gets'[s] # gets[s] =>
                  /\ gets'[s] = gets[s] + 1
                  /\ outcome[s] = "none"
                  /\ gets[s] < NUM_ATTEMPTS]_vars

\* the check is over after one target answered on a retry and the next used
\* up its attempts
C14_Witness ==
    /\ Finished
    /\ \E s, t \in Targets :
          /\ outcome[s] = "success" /\ gets[s] > 1
          /\ outcome[t] = "exhausted" /\ gets[t] = NUM_ATTEMPTS

----------------------------------------------------------------------------
(* input_vars                                                              *)

MaxExtensions == 2
MaxCalls == 2

Ingress == "stages/04-kubernetes-ingress"
KeycloakConfiguration == "stages/06-kubernetes-keycloak-configuration"
Infrastructure == "stages/02-infrastructure"
Credentials == "keycloak-read-only-user-credentials"

forwardauth_middleware_name == "traefik-forward-auth"

NoKey == ""

\* d with key k set to v (a dict literal with one more entry)
WithKey(d, k, v) == [x \in DOMAIN d \cup {k} |-> IF x = k THEN v ELSE d[x]]

\* d, with key k set to v unless tag is "absent"
Put(d, tag, k, v) == IF tag = "absent" THEN d ELSE WithKey(d, k, v)

\* a terraform output entry: {"sensitive": ..., "value": v}; the tag says
\* whether "value" is there and whether it is None
OutputEntry(tag, v) ==
    Put([sensitive |-> "false"], IF tag = "novalue" THEN "absent" ELSE tag,
        "value", IF tag = "none" THEN None ELSE v)

Tags == {"absent", "none", "value"}

IngressOutputs ==
    { Put([load_balancer_address |-> "10.0.0.1"], t, "domain",
          IF t = "none" THEN None ELSE "nebari.example.com") : t \in Tags }

KeycloakOutputs ==
    { Put(Put([unused |-> "x"], r, "realm_id", OutputEntry(r, "nebari")),
          c, Credentials, OutputEntry(c, "read-only-user")) : r \in Tags, c \in Tags }

InfrastructureOutputs ==
    { Put(Put([kubeconfig_filename |-> "kubeconfig"], n, "node_selectors",
              IF n = "none" THEN None ELSE "node-selectors"),
          e, "nfs_endpoint", OutputEntry(e, "nfs.internal")) :
        n \in Tags, e \in Tags \cup {"novalue"} }

\* the stage_outputs maps input_vars is called with: each upstream stage's
\* entry is there or not, and holds each key or not
StageOutputs ==
    { [k \in {"stages/01-terraform-state"} \cup
             (IF i = <<>> THEN {} ELSE {Ingress}) \cup
             (IF c = <<>> THEN {} ELSE {KeycloakConfiguration}) \cup
             (IF f = <<>> THEN {} ELSE {Infrastructure}) |->
          CASE k = Ingress -> i
            [] k = KeycloakConfiguration -> c
            [] k = Infrastructure -> f
            [] OTHER -> [unused |-> "x"]] :
        i \in IngressOutputs \cup {<<>>},
        c \in KeycloakOutputs \cup {<<>>},
        f \in InfrastructureOutputs \cup {<<>>} }

\* tf_extensions entries: logout is a path ("" when the extension has none)
Extensions ==
    { [urlslug |-> "gallery", logout |-> <<"/", "logout">>],
      [urlslug |-> "forum", logout |-> <<"/", "signout">>],
      [urlslug |-> "docs", logout |-> <<>>] }

\* an extension is configured once
ExtensionLists ==
    UNION { { l \in [1..n -> Extensions] : \A i, j \in 1..n : i # j => l[i] # l[j] } :
            n \in 0..MaxExtensions }

\* the deployments configured: the cloud provider, the certificate and
\* whether argo workflows are on
Deployments ==
    { [provider |-> "azure", certificate |-> "self-signed", argo |-> TRUE],
      [provider |-> "gcp", certificate |-> "existing", argo |-> FALSE] }

Configs ==
    { [project_name |-> "nebari",
       namespace |-> "dev",
       provider |-> d.provider,
       nebari_version |-> "2024.1.1",
       certificate |-> [type |-> d.certificate, secret_name |-> "tls-secret"],
       theme |-> [jupyterhub |-> [hub_title |-> "Nebari", version |-> v,
                                  display_version |-> dv]],
       tf_extensions |-> exts,
       environments |-> [dask |-> "environment-dask.yaml"],
       default_images |-> [jupyterhub |-> <<"quay.io/nebari/nebari-jupyterhub", "2024.1.1">>,
                           jupyterlab |-> <<"quay.io/nebari/nebari-jupyterlab", "2024.1.1">>,
                           dask_worker |-> <<"quay.io/nebari/nebari-dask-worker", "2024.1.1">>],
       storage |-> [conda_store |-> "200Gi", shared_filesystem |-> "200Gi"],
       conda_store |-> [default_namespace |-> "nebari-git",
                        extra_settings |-> "extra-settings",
                        extra_config |-> "extra-config",
                        image |-> "quansight/conda-store-server",
                        image_tag |-> "2024.1.1"],
       profiles |-> [jupyterlab |-> "jupyterlab-profiles",
                     dask_worker |-> "dask-worker-profiles"],
       jupyterhub |-> [overrides |-> "jupyterhub-overrides"],
       jupyterlab |-> [idle_culler |-> "idle-culler",
                       initial_repositories |-> "repositories",
                       default_settings |-> "default-settings",
                       preferred_dir |-> None],
       argo_workflows |-> [enabled |-> d.argo,
                           overrides |-> "argo-overrides",
                           nebari_workflow_controller |->
                               [enabled |-> TRUE, image_tag |-> "2024.1.1"]],
       jhub_apps |-> [enabled |-> FALSE],
       monitoring |-> [enabled |-> TRUE, minio_enabled |-> TRUE,
                       overrides |-> [loki |-> "loki", promtail |-> "promtail",
                                      minio |-> "minio"]],
       telemetry |-> [jupyterlab_pioneer |-> [enabled |-> FALSE, log_format |-> None]]] :
        d \in Deployments,
        v \in {"", "v2023.7.1"},
        dv \in {"True", ""},
        exts \in ExtensionLists }

MissingKey_Get(d, path) == NoKey

\* d[path[1]][path[2]]...: the value read (None where a key is not there, the
\* case in which MissingKey names the key that raises)
RECURSIVE Value(_, _)
Value(d, path) ==
    IF path = <<>> THEN d
    ELSE IF Head(path) \notin DOMAIN d THEN None
    ELSE Value(d[Head(path)], Tail(path))

\* d[path[1]][path[2]]...: the key that raises KeyError, or NoKey
RECURSIVE MissingKey(_, _)
MissingKey(d, path) ==
    IF path = <<>> THEN NoKey
    ELSE IF Head(path) \notin DOMAIN d THEN Head(path)
    ELSE MissingKey(d[Head(path)], Tail(path))

\* the subscript reads of stage_outputs made before the theme is looked at,
\* in the order the code makes them
EarlyReads ==
    << <<Ingress, "domain">>,
       <<KeycloakConfiguration, "realm_id", "value">>,
       <<Infrastructure>>,
       <<KeycloakConfiguration, Credentials, "value">> >>

\* the subscript read made while the shared variables are built
LateReads == << <<Infrastructure, "node_selectors">> >>

\* the first key of the reads that raises KeyError, or NoKey
RECURSIVE FirstMissing(_, _)
FirstMissing(so, reads) ==
    IF reads = <<>> THEN NoKey
    ELSE IF MissingKey(so, Head(reads)) # NoKey THEN MissingKey(so, Head(reads))
    ELSE FirstMissing(so, Tail(reads))

\* stage_outputs["stages/02-infrastructure"].get("nfs_endpoint", {}).get("value")
SharedEndpoint(so) ==
    IF Infrastructure \notin DOMAIN so THEN None
    ELSE LET infra == so[Infrastructure]
         IN  IF "nfs_endpoint" \notin DOMAIN infra THEN None
             ELSE IF "value" \notin DOMAIN infra["nfs_endpoint"] THEN None
             ELSE infra["nfs_endpoint"]["value"]

\* urllib.parse.quote_plus of one piece of a url
QuoteToken(t) ==
    CASE t = ":" -> <<"%", "3A">>
      [] t = "/" -> <<"%", "2F">>
      [] t = "?" -> <<"%", "3F">>
      [] t = "=" -> <<"%", "3D">>
      [] t = "&" -> <<"%", "26">>
      [] t = "%" -> <<"%", "25">>
      [] OTHER -> <<t>>

RECURSIVE QuotePlus(_)
QuotePlus(url) ==
    IF url = <<>> THEN <<>> ELSE QuoteToken(Head(url)) \o QuotePlus(Tail(url))

\* urlencode({"redirect_uri": url})
UrlEncodeRedirect(url) == <<"redirect_uri", "=">> \o QuotePlus(url)

\* f"https://{domain}/hub/login"
HubLogin(domain) == <<"https", ":", "/", "/", domain, "/", "hub", "/", "login">>

RECURSIVE LogoutUri_NotCompounded(_, _, _)
LogoutUri_NotCompounded(domain, exts, uri) ==
    IF exts = <<>> THEN uri
    ELSE LET ext == Head(exts)
             rest == LogoutUri_NotCompounded(domain, Tail(exts), uri)
         IN  IF ext.logout # <<>> /\ rest = uri
             THEN <<"https", ":", "/", "/", domain, "/", ext.urlslug>>
                      \o ext.logout \o <<"?">> \o UrlEncodeRedirect(uri)
             ELSE rest

\* the loop over tf_extensions that compounds the logout urls
RECURSIVE LogoutUri(_, _, _)
LogoutUri(domain, exts, uri) ==
    IF exts = <<>> THEN uri
    ELSE LET ext == Head(exts)
         IN  LogoutUri(domain, Tail(exts),
                 IF ext.logout # <<>>
                 THEN <<"https", ":", "/", "/", domain, "/", ext.urlslug>>
                          \o ext.logout \o <<"?">> \o UrlEncodeRedirect(uri)
                 ELSE uri)

\* truth value of a str
Truthy(str) == str # ""

\* jupyterhub_theme = self.config.theme.jupyterhub; jupyterhub_theme.update(...):
\* the theme object of the configuration itself is updated
UpdateTheme(cfg) ==
    IF Truthy(cfg.theme.jupyterhub.display_version) /\ ~Truthy(cfg.theme.jupyterhub.version)
    THEN [cfg EXCEPT !.theme.jupyterhub.version = "v" \o cfg.nebari_version]
    ELSE cfg

KubernetesServicesRequired_OptionalRealm == {"endpoint", "node_groups"}

\* the fields of each variable class that are declared without Optional and
\* without a default and get their value from stage_outputs
KubernetesServicesRequired == {"endpoint", "realm_id", "node_groups"}
ArgoWorkflowsRequired == {Credentials}

\* pydantic validation of the keyword arguments of a variable class: the
\* required fields whose value is None
Invalid(values, required) == {f \in required \cap DOMAIN values : values[f] = None}

\* _split_docker_image_name: image_name.split(":") as name and tag
SplitDockerImageName(image_name) == [name |-> image_name[1], tag |-> image_name[2]]

\* json.dumps of a configuration value: its text
JsonDumps(value) == <<"json", value>>

Merge_Left(a, b) == a

\* {**a, **b}
Merge(a, b) == [k \in DOMAIN a \cup DOMAIN b |-> IF k \in DOMAIN b THEN b[k] ELSE a[k]]

RECURSIVE MergeAll(_)
MergeAll(groups) ==
    IF Len(groups) = 1 THEN groups[1]
    ELSE Merge(MergeAll(SubSeq(groups, 1, Len(groups) - 1)), groups[Len(groups)])

Raised(kind, error, fields, cfg) ==
    [kind |-> kind, error |-> error, fields |-> fields, vars |-> NoVars, config |-> cfg,
     groups |-> <<>>]

\* input_vars(stage_outputs) on configuration cfg: what it returns or raises,
\* and the configuration it leaves behind
InputVarsRun(cfg, so) ==
    IF FirstMissing(so, EarlyReads) # NoKey
    THEN Raised("KeyError", FirstMissing(so, EarlyReads), {}, cfg)
    ELSE
    LET domain == Value(so, <<Ingress, "domain">>)
        realm_id == Value(so, <<KeycloakConfiguration, "realm_id", "value">>)
        cloud_provider == cfg.provider
        jupyterhub_shared_endpoint == SharedEndpoint(so)
        keycloak_read_only_user_credentials ==
            Value(so, <<KeycloakConfiguration, Credentials, "value">>)
        conda_store_token_scopes ==
            [scope \in {"dask-gateway", "argo-workflows-jupyter-scheduler", "jhub-apps"} |->
                [primary_namespace |-> "", role_bindings |-> <<"*/*", "viewer">>]]
        final_logout_uri == LogoutUri(domain, cfg.tf_extensions, HubLogin(domain))
        cfg2 == UpdateTheme(cfg)
        jupyterhub_theme == cfg2.theme.jupyterhub
    IN
    IF FirstMissing(so, LateReads) # NoKey
    THEN Raised("KeyError", FirstMissing(so, LateReads), {}, cfg2)
    ELSE
    LET kubernetes_services_vars ==
            [k \in {"name", "environment", "endpoint", "realm_id", "node_groups",
                    "jupyterhub-logout-redirect-url", "forwardauth_middleware_name",
                    "cert_secret_name"} |->
                CASE k = "name" -> cfg2.project_name
                  [] k = "environment" -> cfg2.namespace
                  [] k = "endpoint" -> domain
                  [] k = "realm_id" -> realm_id
                  [] k = "node_groups" -> Value(so, <<Infrastructure, "node_selectors">>)
                  [] k = "jupyterhub-logout-redirect-url" -> final_logout_uri
                  [] k = "forwardauth_middleware_name" -> forwardauth_middleware_name
                  [] k = "cert_secret_name" ->
                        IF cfg2.certificate.type = "existing"
                        THEN cfg2.certificate.secret_name ELSE None]
        conda_store_vars ==
            [k \in {"conda-store-environments", "conda-store-default-namespace",
                    "conda-store-filesystem-storage", "conda-store-object-storage",
                    "conda-store-extra-settings", "conda-store-extra-config",
                    "conda-store-image", "conda-store-image-tag",
                    "conda-store-service-token-scopes"} |->
                CASE k = "conda-store-environments" -> cfg2.environments
                  [] k = "conda-store-default-namespace" -> cfg2.conda_store.default_namespace
                  [] k = "conda-store-filesystem-storage" -> cfg2.storage.conda_store
                  [] k = "conda-store-object-storage" -> cfg2.storage.conda_store
                  [] k = "conda-store-extra-settings" -> cfg2.conda_store.extra_settings
                  [] k = "conda-store-extra-config" -> cfg2.conda_store.extra_config
                  [] k = "conda-store-image" -> cfg2.conda_store.image
                  [] k = "conda-store-image-tag" -> cfg2.conda_store.image_tag
                  [] k = "conda-store-service-token-scopes" -> conda_store_token_scopes]
        jupyterhub_vars ==
            [k \in {"jupyterhub-theme", "jupyterlab-image", "jupyterlab-default-settings",
                    "initial-repositories", "jupyterhub-overrides",
                    "jupyterhub-shared-storage", "jupyterhub-shared-endpoint",
                    "jupyterlab-profiles", "jupyterhub-image", "jupyterhub-hub-extraEnv",
                    "idle-culler-settings", "argo-workflows-enabled", "jhub-apps-enabled",
                    "cloud-provider", "jupyterlab-preferred-dir"} |->
                CASE k = "jupyterhub-theme" -> jupyterhub_theme
                  [] k = "jupyterlab-image" ->
                        SplitDockerImageName(cfg2.default_images.jupyterlab)
                  [] k = "jupyterlab-default-settings" -> cfg2.jupyterlab.default_settings
                  [] k = "initial-repositories" -> cfg2.jupyterlab.initial_repositories
                  [] k = "jupyterhub-overrides" -> <<JsonDumps(cfg2.jupyterhub.overrides)>>
                  [] k = "jupyterhub-shared-storage" -> cfg2.storage.shared_filesystem
                  [] k = "jupyterhub-shared-endpoint" -> jupyterhub_shared_endpoint
                  [] k = "jupyterlab-profiles" -> cfg2.profiles.jupyterlab
                  [] k = "jupyterhub-image" ->
                        SplitDockerImageName(cfg2.default_images.jupyterhub)
                  [] k = "jupyterhub-hub-extraEnv" -> JsonDumps(<<>>)
                  [] k = "idle-culler-settings" -> cfg2.jupyterlab.idle_culler
                  [] k = "argo-workflows-enabled" -> cfg2.argo_workflows.enabled
                  [] k = "jhub-apps-enabled" -> cfg2.jhub_apps.enabled
                  [] k = "cloud-provider" -> cloud_provider
                  [] k = "jupyterlab-preferred-dir" -> cfg2.jupyterlab.preferred_dir]
        dask_gateway_vars ==
            [k \in {"dask-worker-image", "dask-gateway-profiles", "cloud-provider",
                    "forwardauth_middleware_name"} |->
                CASE k = "dask-worker-image" ->
                        SplitDockerImageName(cfg2.default_images.dask_worker)
                  [] k = "dask-gateway-profiles" -> cfg2.profiles.dask_worker
                  [] k = "cloud-provider" -> cloud_provider
                  [] k = "forwardauth_middleware_name" -> forwardauth_middleware_name]
        monitoring_vars ==
            [k \in {"monitoring-enabled", "minio-enabled", "grafana-loki-overrides",
                    "grafana-promtail-overrides", "grafana-loki-minio-overrides"} |->
                CASE k = "monitoring-enabled" -> cfg2.monitoring.enabled
                  [] k = "minio-enabled" -> cfg2.monitoring.minio_enabled
                  [] k = "grafana-loki-overrides" ->
                        <<JsonDumps(cfg2.monitoring.overrides.loki)>>
                  [] k = "grafana-promtail-overrides" ->
                        <<JsonDumps(cfg2.monitoring.overrides.promtail)>>
                  [] k = "grafana-loki-minio-overrides" ->
                        <<JsonDumps(cfg2.monitoring.overrides.minio)>>]
        telemetry_vars ==
            [k \in {"jupyterlab-pioneer-enabled", "jupyterlab-pioneer-log-format"} |->
                CASE k = "jupyterlab-pioneer-enabled" ->
                        cfg2.telemetry.jupyterlab_pioneer.enabled
                  [] k = "jupyterlab-pioneer-log-format" ->
                        cfg2.telemetry.jupyterlab_pioneer.log_format]
        argo_workflows_vars ==
            [k \in {"argo-workflows-enabled", "argo-workflows-overrides",
                    "nebari-workflow-controller", "workflow-controller-image-tag",
                    Credentials} |->
                CASE k = "argo-workflows-enabled" -> cfg2.argo_workflows.enabled
                  [] k = "argo-workflows-overrides" ->
                        <<JsonDumps(cfg2.argo_workflows.overrides)>>
                  [] k = "nebari-workflow-controller" ->
                        cfg2.argo_workflows.nebari_workflow_controller.enabled
                  [] k = "workflow-controller-image-tag" ->
                        cfg2.argo_workflows.nebari_workflow_controller.image_tag
                  [] k = Credentials -> keycloak_read_only_user_credentials]
    IN
    IF Invalid(kubernetes_services_vars, KubernetesServicesRequired) # {}
    THEN Raised("ValidationError", "KubernetesServicesInputVars",
                Invalid(kubernetes_services_vars, KubernetesServicesRequired), cfg2)
    ELSE IF Invalid(argo_workflows_vars, ArgoWorkflowsRequired) # {}
    THEN Raised("ValidationError", "ArgoWorkflowsInputVars",
                Invalid(argo_workflows_vars, ArgoWorkflowsRequired), cfg2)
    ELSE [kind |-> "ok", error |-> "", fields |-> {},
          vars |-> MergeAll(<<kubernetes_services_vars, conda_store_vars,
                              jupyterhub_vars, dask_gateway_vars, monitoring_vars,
                              argo_workflows_vars, telemetry_vars>>),
          config |-> cfg2,
          groups |-> <<kubernetes_services_vars, conda_store_vars,
                       jupyterhub_vars, dask_gateway_vars, monitoring_vars,
                       argo_workflows_vars, telemetry_vars>>]

\* a call of input_vars
InputVars ==
    /\ ivCalls < MaxCalls
    /\ ~applied
    /\ LET r == InputVarsRun(config, stage_outputs)
       IN  /\ config' = r.config
           /\ ivResult' = [kind |-> r.kind, error |-> r.error, fields |-> r.fields,
                           vars |-> r.vars]
           /\ ivGroups' = r.groups
    /\ ivPrev' = ivResult
    /\ ivCalls' = ivCalls + 1
    /\ UNCHANGED <<stage_outputs, config0, outputs0, applied>>
    /\ UNCHANGED <<hcVars, kvVars, ccVars, pfVars>>

\* the pipeline hands the variable set input_vars returned to the apply engine
Apply ==
    /\ ivResult.kind = "ok"
    /\ ~applied
    /\ applied' = TRUE
    /\ UNCHANGED <<config, stage_outputs, config0, outputs0, ivCalls, ivResult, ivPrev,
                   ivGroups>>
    /\ UNCHANGED <<hcVars, kvVars, ccVars, pfVars>>

IdleCheck ==
    /\ services = <<>>
    /\ hcPc = "idle"
    /\ svcIdx = 1
    /\ attempt = 0
    /\ gets = <<>>
    /\ waits = <<>>
    /\ bad = <<>>
    /\ lastStatus = <<>>
    /\ outcome = <<>>
    /\ elapsed = 0
    /\ printed = NoLine
    /\ exitStatus = -1
    /\ nextStage = FALSE

InitInput ==
    /\ config \in Configs
    /\ stage_outputs \in StageOutputs
    /\ config0 = config
    /\ outputs0 = stage_outputs
    /\ ivCalls = 0
    /\ ivResult = NoResult
    /\ ivPrev = NoResult
    /\ applied = FALSE
    /\ ivGroups = <<>>
    /\ IdleCheck
    /\ IdleVersions
    /\ IdleCredentials
    /\ IdleProfiles

NextInput ==
    \/ InputVars
    \/ Apply

SpecInput == InitInput /\ [][NextInput]_vars

----------------------------------------------------------------------------
(* Claims about input_vars (SpecInput)                                     *)

\* the keys input_vars reads with a subscript, and the one it reads with .get
SubscriptKeys ==
    { <<Ingress, "domain">>,
      <<KeycloakConfiguration, "realm_id">>,
      <<KeycloakConfiguration, Credentials>>,
      <<Infrastructure, "node_selectors">> }

GetKeys == { <<Infrastructure, "nfs_endpoint">> }

\* the key path[2] is not in the outputs of stage path[1]
Absent(path) ==
    \/ path[1] \notin DOMAIN outputs0
    \/ path[2] \notin DOMAIN outputs0[path[1]]

NoSubscriptKeyAbsent == \A path \in SubscriptKeys : ~Absent(path)

\* C6 as stated: with any of the keys input_vars reads absent (domain,
\* realm_id, the read-only user credentials, node_selectors, nfs_endpoint), a
\* call fails with a missing-key error, returns no variable set and no apply
\* follows.
C6_EveryKeyRequired ==
    ivCalls > 0 =>
        \A path \in SubscriptKeys \cup GetKeys :
            Absent(path) => (ivResult.kind = "KeyError" /\ ~applied)

\* C6, amended: with domain, realm_id, the read-only user credentials or
\* node_selectors absent, a call fails with a KeyError naming a missing key,
\* returns no variable set and no apply follows; a call fails that way only
\* when one of the subscript reads finds no key. An absent nfs_endpoint is
\* not an error: the shared endpoint variable is then None.
C6_SubscriptKeysRequired ==
    /\ applied => ivResult.kind = "ok"
    /\ ivCalls > 0 =>
          /\ \A path \in SubscriptKeys :
                Absent(path) =>
                    /\ ivResult.kind = "KeyError"
                    /\ \E p \in SubscriptKeys :
                          Absent(p) /\ ivResult.error \in {p[1], p[2]}
                    /\ ivResult.vars = NoVars
                    /\ ~applied
          /\ ivResult.kind = "KeyError" <=> ~NoSubscriptKeyAbsent
          /\ (ivResult.kind = "ok" /\ \E path \in GetKeys : Absent(path)) =>
                ivResult.vars["jupyterhub-shared-endpoint"] = None

\* input_vars was called without node_selectors in the infrastructure outputs
C6_Witness ==
    /\ ivCalls > 0
    /\ Absent(<<Infrastructure, "node_selectors">>)
    /\ ~Absent(<<Ingress, "domain">>)
    /\ ivResult.kind = "KeyError"
    /\ ivResult.error = "node_selectors"

\* C7: input_vars is pure: a call leaves the configuration (its jupyterhub
\* theme included) and stage_outputs as they were, and two consecutive calls
\* return the same.
C7_Pure ==
    /\ config = config0
    /\ stage_outputs = outputs0
    /\ ivCalls >= 2 => (ivResult.kind = ivPrev.kind /\ ivResult = ivPrev)

\* the gathered values that are None although their field is required
Lacking ==
    {f \in {"endpoint", "realm_id", "node_groups", Credentials} :
        CASE f = "endpoint" -> outputs0[Ingress]["domain"] = None
          [] f = "realm_id" -> outputs0[KeycloakConfiguration]["realm_id"]["value"] = None
          [] f = "node_groups" -> outputs0[Infrastructure]["node_selectors"] = None
          [] f = Credentials -> outputs0[KeycloakConfiguration][Credentials]["value"] = None}

SharedFields == {"endpoint", "realm_id", "node_groups"}

\* C8: when every key is there but a value gathered for a required field is
\* missing (None), the call fails with a validation error and returns no
\* variable set, and no apply follows; the error names lacking fields only,
\* and all those of the first variable class that lacks one (the shared
\* variables first), so a single lacking field is always named. With no
\* field lacking the call returns a variable set.
C8_SchemaRejection ==
    (ivCalls > 0 /\ NoSubscriptKeyAbsent) =>
        /\ Lacking # {} =>
              /\ ivResult.kind = "ValidationError"
              /\ ivResult.fields # {}
              /\ ivResult.fields \subseteq Lacking
              /\ Lacking \cap SharedFields # {} => ivResult.fields = Lacking \cap SharedFields
              /\ Cardinality(Lacking) = 1 => ivResult.fields = Lacking
              /\ ivResult.vars = NoVars
              /\ ~applied
        /\ Lacking = {} => ivResult.kind = "ok"

\* a call made with a realm_id output whose value is None
C8_Witness ==
    /\ ivCalls > 0
    /\ ivResult.kind = "ValidationError"
    /\ ivResult.fields = {"realm_id"}
    /\ ~applied

\* the extensions of the configuration that have a logout path, in order
LogoutBearing == SelectSeq(config0.tf_extensions, LAMBDA e : e.logout # <<>>)

\* https://<domain>/<urlslug><logout>?redirect_uri=
LogoutPrefix(domain, ext) ==
    <<"https", ":", "/", "/", domain, "/", ext.urlslug>> \o ext.logout
        \o <<"?", "redirect_uri", "=">>

\* the url that logs out of the extensions of bearing, the last of them
\* first, and ends at the hub login
RECURSIVE Nested(_, _)
Nested(domain, bearing) ==
    IF bearing = <<>>
    THEN <<"https", ":", "/", "/", domain, "/", "hub", "/", "login">>
    ELSE LogoutPrefix(domain, bearing[Len(bearing)])
             \o QuotePlus(Nested(domain, SubSeq(bearing, 1, Len(bearing) - 1)))

RECURSIVE QuoteTimes(_, _)
QuoteTimes(url, n) == IF n = 0 THEN url ELSE QuotePlus(QuoteTimes(url, n - 1))

IsPrefix(a, b) == Len(a) <= Len(b) /\ SubSeq(b, 1, Len(a)) = a

IsSuffix(a, b) == Len(a) <= Len(b) /\ SubSeq(b, Len(b) - Len(a) + 1, Len(b)) = a

\* C15: the logout redirect url is the fold over the extensions in order:
\* it starts as https://<domain>/hub/login and each extension with a logout
\* path wraps the url so far as its url-encoded redirect_uri, the others
\* leave it alone. So without such an extension it is the hub login url,
\* the last such extension is the outermost url and the hub login url is
\* the innermost redirect target.
C15_LogoutFold ==
    ivResult.kind = "ok" =>
        LET domain == outputs0[Ingress]["domain"]
            url == ivResult.vars["jupyterhub-logout-redirect-url"]
            hub == <<"https", ":", "/", "/", domain, "/", "hub", "/", "login">>
        IN  /\ url = Nested(domain, LogoutBearing)
            /\ LogoutBearing = <<>> => url = hub
            /\ LogoutBearing # <<>> =>
                  IsPrefix(LogoutPrefix(domain, LogoutBearing[Len(LogoutBearing)]), url)
            /\ IsSuffix(QuoteTimes(hub, Len(LogoutBearing)), url)

\* a configuration with two different extensions that have a logout path
C15_Witness ==
    /\ ivResult.kind = "ok"
    /\ Len(LogoutBearing) = 2
    /\ LogoutBearing[1].urlslug = "gallery"
    /\ LogoutBearing[2].urlslug = "forum"
    /\ IsPrefix(<<"https", ":", "/", "/", "nebari.example.com", "/", "forum", "/", "signout">>,
                ivResult.vars["jupyterhub-logout-redirect-url"])

\* the names that occur in more than one of the groups
SharedNames ==
    { k \in UNION {DOMAIN ivGroups[i] : i \in DOMAIN ivGroups} :
        \E i, j \in DOMAIN ivGroups :
            i # j /\ k \in DOMAIN ivGroups[i] /\ k \in DOMAIN ivGroups[j] }

RECURSIVE Backwards(_)
Backwards(seq) ==
    IF seq = <<>> THEN <<>> ELSE Backwards(Tail(seq)) \o <<Head(seq)>>

\* groups merged with the earlier group's value kept where two groups have
\* the same name
RECURSIVE UnionFirstWins(_)
UnionFirstWins(groups) ==
    IF groups = <<>> THEN NoVars
    ELSE LET rest == UnionFirstWins(Tail(groups))
         IN  [k \in DOMAIN Head(groups) \cup DOMAIN rest |->
                 IF k \in DOMAIN Head(groups) THEN Head(groups)[k] ELSE rest[k]]

\* C20: the variable set returned is the union of the seven groups; the
\* names found in more than one group are cloud-provider,
\* argo-workflows-enabled and forwardauth_middleware_name, and each has the
\* same value in every group that has it, whatever the configuration: the
\* result has every group's value for every name, and merging the groups
\* the other way round gives the same set.
C20_SharedNamesAgree ==
    ivResult.kind = "ok" =>
        /\ Len(ivGroups) = 7
        /\ DOMAIN ivResult.vars = UNION {DOMAIN ivGroups[i] : i \in DOMAIN ivGroups}
        /\ SharedNames = {"cloud-provider", "argo-workflows-enabled",
                          "forwardauth_middleware_name"}
        /\ \A i, j \in DOMAIN ivGroups :
              \A k \in DOMAIN ivGroups[i] \cap DOMAIN ivGroups[j] :
                  ivGroups[i][k] = ivGroups[j][k]
        /\ \A i \in DOMAIN ivGroups :
              \A k \in DOMAIN ivGroups[i] : ivResult.vars[k] = ivGroups[i][k]
        /\ ivResult.vars = UnionFirstWins(ivGroups)
        /\ ivResult.vars = UnionFirstWins(Backwards(ivGroups))

\* a call for the deployment on gcp with argo workflows off returned its
\* variable set
C20_Witness ==
    /\ ivResult.kind = "ok"
    /\ Len(ivGroups) = 7
    /\ ivResult.vars["cloud-provider"] = "gcp"
    /\ ivGroups[4]["cloud-provider"] = "gcp"
    /\ ivResult.vars["argo-workflows-enabled"] = FALSE
    /\ ivGroups[6]["argo-workflows-enabled"] = FALSE
    /\ ivGroups[1]["forwardauth_middleware_name"] = ivGroups[4]["forwardauth_middleware_name"]

----------------------------------------------------------------------------
(* check_credentials                                                       *)

MaxChecks == 2
MaxProcesses == 2

\* the names of the set literal check_credentials iterates
RequiredVariables ==
    {"ARM_CLIENT_ID", "ARM_CLIENT_SECRET", "ARM_SUBSCRIPTION_ID", "ARM_TENANT_ID"}

\* os.environ, as far as the required names go
Environs == SUBSET RequiredVariables

\* the orders in which a for loop may go through the set literal: the order
\* of a set of str follows the hashes of the process, which differ from one
\* interpreter process to the next
Orders ==
    { o \in [1..Cardinality(RequiredVariables) -> RequiredVariables] :
        \A i, j \in DOMAIN o : i # j => o[i] # o[j] }

\* the for loop of check_credentials: the variable of the first iteration
\* whose `variable not in os.environ` holds, as the set of names the
\* ValueError message carries ({} when the loop runs to its end)
FirstAbsent(o, env) ==
    IF \A i \in DOMAIN o : o[i] \in env THEN {}
    ELSE LET i == CHOOSE k \in DOMAIN o :
                     /\ o[k] \notin env
                     /\ \A j \in 1..(k - 1) : o[j] \in env
         IN  {o[i]}

\* a call of check_credentials
CheckCredentials ==
    /\ ccCalls < MaxChecks
    /\ ccReport' = IF FirstAbsent(order, environ) = {}
                   THEN [outcome |-> "returned", names |-> {}]
                   ELSE [outcome |-> "raised", names |-> FirstAbsent(order, environ)]
    /\ ccPrev' = ccReport
    /\ ccCalls' = ccCalls + 1
    /\ UNCHANGED <<environ, order, processes>>
    /\ UNCHANGED <<hcVars, ivVars, kvVars, pfVars>>

\* the program is started again with the same environment: a new interpreter
\* process, whose str hashes are seeded anew
NewProcess ==
    /\ processes < MaxProcesses
    /\ ccCalls > 0
    /\ processes' = processes + 1
    /\ order' \in Orders
    /\ UNCHANGED <<environ, ccCalls, ccReport, ccPrev>>
    /\ UNCHANGED <<hcVars, ivVars, kvVars, pfVars>>

\* the environments the version lookups are made in
VersionEnvirons == {RequiredVariables, RequiredVariables \ {"ARM_CLIENT_SECRET"}}

InitCredentials ==
    /\ environ \in Environs
    /\ order \in Orders
    /\ ccCalls = 0
    /\ ccReport = NoReport
    /\ ccPrev = NoReport
    /\ processes = 1
    /\ IdleCheck
    /\ IdleInput
    /\ IdleVersions
    /\ IdleProfiles

NextCredentials ==
    \/ CheckCredentials
    \/ NewProcess

SpecCredentials == InitCredentials /\ [][NextCredentials]_vars

----------------------------------------------------------------------------
(* Claims about check_credentials (SpecCredentials)                        *)

Missing == RequiredVariables \ environ

\* C11: with required variables absent the check fails with an error that
\* names exactly the missing ones, all of them and no others; the same
\* environment always gives the same report; with all four present the call
\* returns.
C11_ExactReport ==
    ccCalls > 0 =>
        /\ IF Missing = {}
           THEN ccReport.outcome = "returned"
           ELSE ccReport.outcome = "raised" /\ ccReport.names = Missing
        /\ ccCalls >= 2 => ccReport = ccPrev

----------------------------------------------------------------------------
(* kubernetes_versions                                                     *)

\* functools.lru_cache() without arguments: maxsize=128
LruMaxSize == 128

MaxNamedCalls == 2
MaxFillers == 129
FillFrom == 126
MaxChanges == 1
MaxFailures == 1

\* the default of the region parameter, "Central US", as its pieces
DefaultRegion == <<"Central", " ", "US">>

\* the argument tuples of the lookups: the lru_cache key is made of the
\* positional and the keyword arguments as they were passed
NamedKeys ==
    { [args |-> <<>>, kwds |-> <<>>],
      [args |-> <<DefaultRegion>>, kwds |-> <<>>],
      [args |-> << <<"centralus">> >>, kwds |-> <<>>] }

\* the k-th of the further regions
FillerKey(k) == [args |-> << <<"zone" \o ToString(k)>> >>, kwds |-> <<>>]

\* the value of the region parameter for a call
RegionOf(key) ==
    IF key.args # <<>> THEN key.args[1]
    ELSE IF key.kwds # <<>> THEN key.kwds[1]
    ELSE DefaultRegion

\* str.lower on the pieces region names are made of
Lower(piece) ==
    CASE piece = "Central" -> "central"
      [] piece = "East" -> "east"
      [] piece = "US" -> "us"
      [] OTHER -> piece

\* region.replace(" ", "").lower()
RECURSIVE AzureLocation(_)
AzureLocation(region) ==
    IF region = <<>> THEN ""
    ELSE IF Head(region) = " " THEN AzureLocation(Tail(region))
    ELSE Lower(Head(region)) \o AzureLocation(Tail(region))

NamedLocations == {AzureLocation(RegionOf(k)) : k \in NamedKeys}

Orchestrator(type, major, minor, patch) ==
    [orchestrator_type |-> type, orchestrator_version |-> <<major, minor, patch>>]

\* what list_orchestrators may answer
Catalogs ==
    { << Orchestrator("Kubernetes", 1, 27, 9), Orchestrator("DCOS", 1, 11, 0),
         Orchestrator("Kubernetes", 1, 26, 6) >>,
      << Orchestrator("Kubernetes", 1, 28, 3), Orchestrator("Kubernetes", 1, 9, 11),
         Orchestrator("Kubernetes", 1, 10, 2) >> }

\* the decimal digits of n as character codes
RECURSIVE DigitCodes(_)
DigitCodes(n) ==
    IF n < 10 THEN <<48 + n>> ELSE DigitCodes(n \div 10) \o <<48 + (n % 10)>>

\* the version string "major.minor.patch" as character codes
VersionString(v) ==
    DigitCodes(v[1]) \o <<46>> \o DigitCodes(v[2]) \o <<46>> \o DigitCodes(v[3])

\* a < b for two str, as sorted() compares them
RECURSIVE StrLess(_, _)
StrLess(a, b) ==
    IF b = <<>> THEN FALSE
    ELSE IF a = <<>> THEN TRUE
    ELSE IF Head(a) # Head(b) THEN Head(a) < Head(b)
    ELSE StrLess(Tail(a), Tail(b))

\* list with v put in before the first entry that is greater than v
RECURSIVE InsertSorted(_, _)
InsertSorted(list, v) ==
    IF list = <<>> THEN <<v>>
    ELSE IF StrLess(VersionString(v), VersionString(Head(list)))
         THEN <<v>> \o list
         ELSE <<Head(list)>> \o InsertSorted(Tail(list), v)

\* sorted(supported_kubernetes_versions)
RECURSIVE SortedVersions(_)
SortedVersions(list) ==
    IF list = <<>> THEN <<>>
    ELSE InsertSorted(SortedVersions(SubSeq(list, 1, Len(list) - 1)), list[Len(list)])

\* the loop over k8s_versions_list["orchestrators"]
RECURSIVE KubernetesOnly(_)
KubernetesOnly(orchestrators) ==
    IF orchestrators = <<>> THEN <<>>
    ELSE IF Head(orchestrators).orchestrator_type = "Kubernetes"
         THEN <<Head(orchestrators).orchestrator_version>> \o KubernetesOnly(Tail(orchestrators))
         ELSE KubernetesOnly(Tail(orchestrators))

\* the highest Kubernetes version the platform supports
HighestSupported == <<1, 29, 0>>

TupleLeq(a, b) ==
    \/ a[1] < b[1]
    \/ a[1] = b[1] /\ a[2] < b[2]
    \/ a[1] = b[1] /\ a[2] = b[2] /\ a[3] <= b[3]

\* filter_by_highest_supported_k8s_version: keeps, in order, the versions the
\* platform supports
RECURSIVE FilterSupported(_)
FilterSupported(list) ==
    IF list = <<>> THEN <<>>
    ELSE IF TupleLeq(Head(list), HighestSupported)
         THEN <<Head(list)>> \o FilterSupported(Tail(list))
         ELSE FilterSupported(Tail(list))

\* the body of kubernetes_versions once list_orchestrators has answered
VersionsFrom(orchestrators) ==
    FilterSupported(SortedVersions(KubernetesOnly(orchestrators)))

CacheFind_Never(c, key) == 0

\* lru_cache lookup: the position of key in the cache, 0 if it is not there
CacheFind(c, key) ==
    IF \E i \in 1..Len(c) : c[i].key = key
    THEN CHOOSE i \in 1..Len(c) : c[i].key = key
    ELSE 0

Without(c, i) == SubSeq(c, 1, i - 1) \o SubSeq(c, i + 1, Len(c))

\* lru_cache hit: the entry becomes the most recently used
Touch(c, i) == Without(c, i) \o <<c[i]>>

CacheInsert_Unbounded(c, entry) == c \o <<entry>>

\* lru_cache miss: the result is stored; a full cache drops its least
\* recently used entry
CacheInsert(c, entry) ==
    IF Len(c) >= LruMaxSize THEN Tail(c) \o <<entry>> ELSE c \o <<entry>>

Bump(f, k) == IF k \in DOMAIN f THEN [f EXCEPT ![k] = @ + 1] ELSE f

CacheKey_Location(key) == [args |-> << <<AzureLocation(RegionOf(key))>> >>, kwds |-> <<>>]

\* the key lru_cache files a call under: the positional and keyword
\* arguments as they were passed
CacheKey(key) == key

AfterRaise_StoresEmpty(c, k) == CacheInsert(c, [key |-> k, result |-> <<>>, serial |-> 0])

\* the cache after a call whose body raised: the exception leaves through the
\* lru_cache wrapper and nothing is stored
AfterRaise(c, k) == c

\* kubernetes_versions(...) with the arguments of key; how is what the
\* client construction and the provider do: "ok", "client_raises",
\* "query_raises"
Lookup(key, how) ==
    LET i == CacheFind(cache, CacheKey(key))
        location == AzureLocation(RegionOf(key))
    IN
    /\ prev' = last
    /\ IF i # 0
       THEN \* served from the cache
            /\ how = "ok"
            /\ cache' = Touch(cache, i)
            /\ last' = [key |-> key, outcome |-> "ok", result |-> cache[i].result,
                        hit |-> TRUE, serial |-> cache[i].serial,
                        before |-> queryCount, backing |-> backing]
            /\ UNCHANGED <<client, queryCount, queriesAt, stored, failedQueries>>
       ELSE IF how = "client_raises"
       THEN \* initiate_container_service_client raises: nothing is cached
            /\ client = "none"
            /\ cache' = AfterRaise(cache, CacheKey(key))
            /\ last' = [key |-> key, outcome |-> "raised", result |-> <<>>,
                        hit |-> FALSE, serial |-> 0, before |-> queryCount,
                        backing |-> backing]
            /\ UNCHANGED <<client, queryCount, queriesAt, stored, failedQueries>>
       ELSE /\ client' = "client"
            /\ queryCount' = queryCount + 1
            /\ queriesAt' = Bump(queriesAt, location)
            /\ IF how = "query_raises"
               THEN /\ cache' = AfterRaise(cache, CacheKey(key))
                    /\ failedQueries' = failedQueries + 1
                    /\ last' = [key |-> key, outcome |-> "raised", result |-> <<>>,
                                hit |-> FALSE, serial |-> 0, before |-> queryCount,
                                backing |-> backing]
                    /\ UNCHANGED stored
               ELSE /\ cache' = CacheInsert(cache,
                                   [key |-> CacheKey(key), result |-> VersionsFrom(backing),
                                    serial |-> queryCount + 1])
                    /\ stored' = Bump(stored, key)
                    /\ last' = [key |-> key, outcome |-> "ok",
                                result |-> VersionsFrom(backing), hit |-> FALSE,
                                serial |-> queryCount + 1, before |-> queryCount,
                                backing |-> backing]
                    /\ UNCHANGED failedQueries

\* a lookup with one of the named arguments
LookupNamed ==
    /\ namedCalls < MaxNamedCalls
    /\ fillers = 0 \/ fillers >= FillFrom
    /\ \E key \in NamedKeys, how \in {"ok", "client_raises", "query_raises"} :
          /\ how # "ok" => (fillers = 0 /\ namedCalls < MaxFailures)
          /\ Lookup(key, how)
          /\ used' = used \cup {key}
    /\ namedCalls' = namedCalls + 1
    /\ UNCHANGED <<backing, fillers, changes>>
    /\ UNCHANGED <<hcVars, ivVars, ccVars, pfVars>>

\* a lookup of a further region, not looked up before
LookupFiller ==
    /\ fillers < MaxFillers
    /\ namedCalls < MaxNamedCalls
    /\ Lookup(FillerKey(fillers + 1), "ok")
    /\ fillers' = fillers + 1
    /\ UNCHANGED <<backing, namedCalls, changes, used>>
    /\ UNCHANGED <<hcVars, ivVars, ccVars, pfVars>>

\* the provider's catalogue changes
ChangeBacking ==
    /\ changes < MaxChanges
    /\ fillers = 0
    /\ \E b \in Catalogs \ {backing} : backing' = b
    /\ changes' = changes + 1
    /\ UNCHANGED <<client, cache, queryCount, queriesAt, stored, fillers, namedCalls,
                   last, prev, used, failedQueries>>
    /\ UNCHANGED <<hcVars, ivVars, ccVars, pfVars>>

InitVersions ==
    /\ backing \in Catalogs
    /\ client = "none"
    /\ cache = <<>>
    /\ queryCount = 0
    /\ queriesAt = [l \in NamedLocations |-> 0]
    /\ stored = [k \in NamedKeys |-> 0]
    /\ fillers = 0
    /\ namedCalls = 0
    /\ changes = 0
    /\ last = NoCall
    /\ prev = NoCall
    /\ used = {}
    /\ failedQueries = 0
    /\ environ \in VersionEnvirons
    /\ order = <<>>
    /\ ccCalls = 0
    /\ ccReport = NoReport
    /\ ccPrev = NoReport
    /\ processes = 0
    /\ IdleCheck
    /\ IdleInput
    /\ IdleProfiles

NextVersions ==
    \/ LookupNamed
    \/ LookupFiller
    \/ ChangeBacking

SpecVersions == InitVersions /\ [][NextVersions]_vars

----------------------------------------------------------------------------
(* Claims about kubernetes_versions (SpecVersions)                         *)

\* the provider queries the last two lookups issued together
PairQueries == queryCount - prev.before

C10_NoEviction == \A k \in NamedKeys : stored[k] <= 1

\* C12: a lookup made while a required variable is absent fails before any
\* provider call: the credentials check comes before the list_orchestrators
\* query and no query is issued with a variable missing.
C12_CredentialsFirst ==
    Missing # {} =>
        /\ queryCount = 0
        /\ last.outcome # "ok"
        /\ last.outcome = "raised" => ccCalls > 0

\* a <= b for two versions, comparing major, minor and patch as numbers
SemverLeq(a, b) ==
    \/ a[1] < b[1]
    \/ a[1] = b[1] /\ a[2] < b[2]
    \/ a[1] = b[1] /\ a[2] = b[2] /\ a[3] <= b[3]

Ascending(list) == \A i \in 1..(Len(list) - 1) : SemverLeq(list[i], list[i + 1])

KubernetesVersionsOf(orchestrators) ==
    { orchestrators[i].orchestrator_version :
        i \in {j \in DOMAIN orchestrators :
                  orchestrators[j].orchestrator_type = "Kubernetes"} }

\* C13: the list handed to the support filter, and the list returned, are in
\* ascending semantic-version order whatever versions the provider lists
\* (1.9.x and 1.10.x together included), and hold Kubernetes versions only.
C13_SemverAscending ==
    (last.outcome = "ok" /\ ~last.hit) =>
        LET handed == SortedVersions(KubernetesOnly(last.backing))
        IN  /\ Ascending(handed)
            /\ Ascending(last.result)
            /\ {handed[i] : i \in DOMAIN handed} = KubernetesVersionsOf(last.backing)

\* C18: a lookup that raises (in the client construction or in the provider
\* call) leaves the cache as it was, and the next lookup with the same
\* argument queries the provider again and returns its list: the failure is
\* not replayed and no empty list is served from the cache.
C18_FailureNotCached ==
    /\ [][last'.outcome = "raised" => cache' = cache]_vars
    /\ []( ( /\ prev.outcome = "raised"
             /\ last.key = prev.key
             /\ last.outcome = "ok" ) =>
               /\ ~last.hit
               /\ queryCount = last.before + 1
               /\ last.result = VersionsFrom(last.backing)
               /\ last.result # <<>> )

\* the provider call of a lookup raised and the lookup was made again
C18_Witness ==
    /\ prev.outcome = "raised"
    /\ failedQueries = 1
    /\ last.key = prev.key
    /\ last.outcome = "ok"
    /\ ~last.hit
    /\ last.result # <<>>
    /\ queryCount = 2

\* the number of distinct argument forms looked up so far
Forms == Cardinality(used) + fillers

\* the named argument forms that have had a result stored
Succeeded == {k \in used : stored[k] >= 1}

RECURSIVE SumOver(_, _)
SumOver(f, S) ==
    IF S = {} THEN 0
    ELSE LET k == CHOOSE x \in S : TRUE IN f[k] + SumOver(f, S \ {k})

----------------------------------------------------------------------------
(* Profiles.check_default                                                  *)

MaxProfiles == 3

\* the entries a jupyterlab list is written with: default is True, False or
\* left out
ProfileEntries ==
    { [display_name |-> "profile", description |-> "a profile"] } \cup
    { [display_name |-> "profile", description |-> "a profile", default |-> d] :
        d \in BOOLEAN }

ProfileLists == UNION { [1..n -> ProfileEntries] : n \in 0..MaxProfiles }

\* JupyterLabProfile(**entry): the object, as the (field, value) pairs it
\* iterates as; a default left out is False
JupyterLabProfile(entry) ==
    << <<"display_name", entry.display_name>>,
       <<"description", entry.description>>,
       <<"default", IF "default" \in DOMAIN entry THEN entry.default ELSE FALSE>> >>

\* `x in attrs` for an object that has no __contains__: x equals one of the
\* items the object iterates as
Contains(attrs, x) == \E i \in DOMAIN attrs : attrs[i] = x

\* [attrs["default"] for attrs in value if "default" in attrs]; the subscript
\* is what an object that passes the test is asked for
RECURSIVE Defaults(_)
Defaults(value) ==
    IF value = <<>> THEN <<>>
    ELSE IF Contains(Head(value), "default")
         THEN <<"TypeError">> \o Defaults(Tail(value))
         ELSE Defaults(Tail(value))

\* default.count(True)
CountTrue(list) == Cardinality({i \in DOMAIN list : list[i] = TRUE})

\* Profiles(jupyterlab=...): the entries are validated into JupyterLabProfile
\* objects; check_default, a field validator without mode, runs after that
ValidateEntries ==
    /\ pfResult.outcome = "none"
    /\ pfResult' = [outcome |-> "validated",
                    value |-> [i \in DOMAIN jupyterlab |-> JupyterLabProfile(jupyterlab[i])]]
    /\ UNCHANGED jupyterlab
    /\ UNCHANGED <<hcVars, ivVars, kvVars, ccVars>>

\* check_default(cls, value)
CheckDefault ==
    /\ pfResult.outcome = "validated"
    /\ LET value == pfResult.value
           default == Defaults(value)
       IN  pfResult' =
               IF "TypeError" \in {default[i] : i \in DOMAIN default}
               THEN [outcome |-> "rejected", value |-> <<>>]
               ELSE IF CountTrue(default) > 1
               THEN [outcome |-> "rejected", value |-> <<>>]
               ELSE [outcome |-> "accepted", value |-> value]
    /\ UNCHANGED jupyterlab
    /\ UNCHANGED <<hcVars, ivVars, kvVars, ccVars>>

InitProfiles ==
    /\ jupyterlab \in ProfileLists
    /\ pfResult = NoVerdict
    /\ IdleCheck
    /\ IdleInput
    /\ IdleVersions
    /\ IdleCredentials

NextProfiles ==
    \/ ValidateEntries
    \/ CheckDefault

SpecProfiles == InitProfiles /\ [][NextProfiles]_vars

----------------------------------------------------------------------------
(* Claims about Profiles.check_default (SpecProfiles)                      *)

\* the entries of the list given that are written with default = True
GivenDefaults ==
    {i \in DOMAIN jupyterlab :
        "default" \in DOMAIN jupyterlab[i] /\ jupyterlab[i].default = TRUE}

\* C16: a jupyterlab list with more than one profile whose default is True
\* is rejected by check_default; a list with no or one such profile is
\* accepted as it is.
C16_OneDefaultOnly ==
    pfResult.outcome \in {"accepted", "rejected"} =>
        IF Cardinality(GivenDefaults) > 1
        THEN pfResult.outcome = "rejected"
        ELSE /\ pfResult.outcome = "accepted"
             /\ pfResult.value =
                    [i \in DOMAIN jupyterlab |-> JupyterLabProfile(jupyterlab[i])]

====
